---- MODULE Spec2Model ----
(***************************************************************************)
(* Model of rag-service/main.py: the in-memory hybrid RAG service          *)
(* (index_content, hybrid_search, set_retention_policy, cleanup_expired,   *)
(* the background entity extraction and ChunkingStrategy.chunk_text).      *)
(*                                                                         *)
(* Text is a sequence of one-character strings.  datetime values are whole *)
(* days on an integer clock `now`; one handler runs within one clock       *)
(* value.  Optional values are <<>> (None) or <<v>>.  A float score        *)
(* matches/len(query_words) is the exact fraction <<num, den>>.            *)
(***************************************************************************)
EXTENDS Integers, Sequences, FiniteSets, TLC

VARIABLES
    indexed_chunks,      \* main.py:346  insertion-ordered dict chunk_id -> DocumentChunk
    indexed_hashes,      \* main.py:285  DeduplicationStrategy.indexed_hashes
    retention_settings,  \* main.py:349  agent_id -> RetentionPolicy
    graph_nodes,         \* main.py:347
    graph_relations,     \* main.py:348
    background_tasks,    \* tasks added by background_tasks.add_task, not yet run
    now,                 \* the value datetime.utcnow() returns
    req,                 \* the request handled last
    resp,                \* the response returned last
    succeeded,           \* history: (content, agent_id, source_id) of ingests answered "success"
    write_log,           \* history: the chunk ids stored at main.py:398, in order
    ck_text, ck_size, ck_overlap,      \* the arguments of one call of chunk_text
    ck_words, ck_chunks, ck_i, ck_pc   \* its locals and its position

vars == <<indexed_chunks, indexed_hashes, retention_settings, graph_nodes,
          graph_relations, background_tasks, now, req, resp, succeeded, write_log,
          ck_text, ck_size, ck_overlap, ck_words, ck_chunks, ck_i, ck_pc>>

svc_vars == <<indexed_chunks, indexed_hashes, retention_settings, graph_nodes,
              graph_relations, background_tasks, now, req, resp, succeeded, write_log>>

hist_vars == <<succeeded, write_log>>

ck_vars == <<ck_text, ck_size, ck_overlap, ck_words, ck_chunks, ck_i, ck_pc>>

-----------------------------------------------------------------------------
(* Bounds *)

MaxTicks == 2
MaxTasks == 1
MaxChunkSteps == 3
MaxTextLen == 4
MaxChunkSize == 3

-----------------------------------------------------------------------------
(* Python values *)

None == <<>>

Some(v) == <<v>>

Min(a, b) == IF a < b THEN a ELSE b

Max(a, b) == IF a > b THEN a ELSE b

\* seq[lo:hi] with Python's treatment of negative and out-of-range indices
PySlice(seq, lo, hi) ==
    LET n == Len(seq)
        l == IF lo < 0 THEN Max(lo + n, 0) ELSE Min(lo, n)
        h == IF hi < 0 THEN Max(hi + n, 0) ELSE Min(hi, n)
    IN  SubSeq(seq, l + 1, h)

IsSpace(c) == c \in {" ", "\t", "\n"}

\* str.lower() on the letters the model uses
LowerChar(c) == CASE c = "A" -> "a" [] c = "B" -> "b" [] c = "C" -> "c" [] OTHER -> c

lower(text) == [i \in 1..Len(text) |-> LowerChar(text[i])]

\* needle in hay, for strings
Contains(hay, needle) ==
    \E i \in 0..(Len(hay) - Len(needle)) : SubSeq(hay, i + 1, i + Len(needle)) = needle

\* the positions lo..hi of text at which a word starts, in increasing order
RECURSIVE WordStarts(_, _, _)
WordStarts(text, lo, hi) ==
    IF lo > hi THEN <<>>
    ELSE IF lo = hi
         THEN IF ~IsSpace(text[lo]) /\ (lo = 1 \/ IsSpace(text[lo - 1]))
              THEN <<lo>> ELSE <<>>
         ELSE LET mid == (lo + hi) \div 2
              IN  WordStarts(text, lo, mid) \o WordStarts(text, mid + 1, hi)

WordEnd(text, start) ==
    CHOOSE j \in start..Len(text) : j = Len(text) \/ IsSpace(text[j + 1])

\* str.split(): the maximal runs of non-whitespace characters
split(text) ==
    LET starts == WordStarts(text, 1, Len(text))
    IN  [k \in 1..Len(starts) |-> SubSeq(text, starts[k], WordEnd(text, starts[k]))]

\* " ".join(words[lo..hi])
RECURSIVE JoinRange(_, _, _)
JoinRange(words, lo, hi) ==
    IF lo > hi THEN <<>>
    ELSE IF lo = hi THEN words[lo]
         ELSE LET mid == (lo + hi) \div 2
              IN  JoinRange(words, lo, mid) \o <<" ">> \o JoinRange(words, mid + 1, hi)

join(words) == JoinRange(words, 1, Len(words))

-----------------------------------------------------------------------------
(* Configuration, main.py:28-64 *)

RetentionPolicy == {"infinite", "10_days", "30_days", "3_months", "6_months", "1_year"}

RETENTION_DAYS ==
    [p \in RetentionPolicy |->
        CASE p = "infinite" -> None
          [] p = "10_days"  -> Some(10)
          [] p = "30_days"  -> Some(30)
          [] p = "3_months" -> Some(90)
          [] p = "6_months" -> Some(180)
          [] p = "1_year"   -> Some(365)]

DEFAULT_CHUNK_SIZE == 500

DEFAULT_OVERLAP == 50

MIN_CONTENT_CHARS == 100

SHARED == "shared"

-----------------------------------------------------------------------------
(* ChunkingStrategy, main.py:151-218 *)

\* main.py:171-173  one pass of the loop body: the window that starts at word i
ChunkWindow(words, i, chunk_size) == join(PySlice(words, i, i + chunk_size))

\* main.py:174
NextStart(i, chunk_size, overlap) == i + chunk_size - overlap

\* main.py:170-174  the while loop, for parameters with which it terminates
RECURSIVE ChunkLoop(_, _, _, _, _)
ChunkLoop(words, i, chunk_size, overlap, chunks) ==
    IF i < Len(words)
    THEN ChunkLoop(words, NextStart(i, chunk_size, overlap), chunk_size, overlap,
                   Append(chunks, ChunkWindow(words, i, chunk_size)))
    ELSE chunks

chunk_text(text, chunk_size, overlap) == ChunkLoop(split(text), 0, chunk_size, overlap, <<>>)

-----------------------------------------------------------------------------
(* Inputs *)


Rep(c, n) == [i \in 1..n |-> c]

TxtEmpty == <<>>

TxtShort == <<"A", "b">>

Txt100 == <<"a">> \o Rep(" ", 99)

Txt101 == <<"a">> \o Rep(" ", 100)

\* 950 words: two windows of 500 equal words and a last one of 50
TxtLong == [i \in 1..1899 |-> IF i % 2 = 1 THEN "a" ELSE " "]

Contents == {TxtEmpty, TxtShort, Txt100, Txt101, TxtLong}

Agents == {"alice", SHARED}

SourceTypes == {"conversation", "document", "conversation_complete", "system"}

TickDays == {10}

Queries == {<<"b">>, <<"a", " ", "B">>}

Limits == {-1, 1, 10}

MinScores == {<<1, 2>>, <<3, 4>>}

\* main.py:192  chunk_text(content) with its default arguments, tabulated
DefaultChunks == [c \in Contents |-> chunk_text(c, DEFAULT_CHUNK_SIZE, DEFAULT_OVERLAP)]

\* sha256(content).hexdigest()[:16], taken as collision-free: the digest is
\* a tagged value that differs exactly when the text differs
compute_hash(content) == <<"sha256_16", content>>

\* main.py:197  f"{agent_id}_{source_id}_{i}_{content_hash}"
ChunkId(agent_id, source_id, i, content_hash) == <<agent_id, source_id, i, content_hash>>

\* faulty variant: the day count is taken as the expiry, without the current time
ExpiryForUndated(retention_policy, t) ==
    IF retention_policy # "infinite"
    THEN Some(RETENTION_DAYS[retention_policy][1])
    ELSE None

\* main.py:200-203
ExpiryFor(retention_policy, t) ==
    IF retention_policy # "infinite"
    THEN Some(t + RETENTION_DAYS[retention_policy][1])
    ELSE None

prepare_chunks(content, agent_id, source_type, source_id, retention_policy, t) ==
    LET chunks == DefaultChunks[content]
    IN  [k \in 1..Len(chunks) |->
            LET content_hash == compute_hash(chunks[k])
            IN  [content   |-> chunks[k],
                 embedding |-> None,
                 metadata  |-> [chunk_id         |-> ChunkId(agent_id, source_id, k - 1, content_hash),
                                content_hash     |-> content_hash,
                                agent_id         |-> agent_id,
                                source_type      |-> source_type,
                                source_id        |-> source_id,
                                timestamp        |-> t,
                                retention_policy |-> retention_policy,
                                expires_at       |-> ExpiryFor(retention_policy, t)]]]

-----------------------------------------------------------------------------
(* DeduplicationStrategy, main.py:272-325 *)

\* faulty variant: no fingerprint is ever recognised
is_duplicate_never(hashes, content_hash) == FALSE

is_duplicate(hashes, content_hash) == content_hash \in hashes

\* faulty variant: the fingerprint is never remembered
mark_indexed_lost(hashes, content_hash) == hashes

\* faulty variant: the set is replaced by the one new fingerprint
mark_indexed_replaces(hashes, content_hash) == {content_hash}

mark_indexed(hashes, content_hash) == hashes \cup {content_hash}

\* faulty variant: the length test comes before the test for system messages
should_index_length_first(content, source_type) ==
    IF source_type \in {"document", "conversation_complete"} THEN TRUE
    ELSE IF Len(content) > MIN_CONTENT_CHARS THEN TRUE
    ELSE IF source_type = "system" THEN FALSE
    ELSE FALSE

\* faulty variant: content of exactly the threshold length is admitted
should_index_at_threshold(content, source_type) ==
    IF source_type \in {"document", "conversation_complete"} THEN TRUE
    ELSE IF source_type = "system" THEN FALSE
    ELSE IF Len(content) >= MIN_CONTENT_CHARS THEN TRUE
    ELSE FALSE

should_index_to_rag(content, source_type) ==
    IF source_type \in {"document", "conversation_complete"} THEN TRUE
    ELSE IF source_type = "system" THEN FALSE
    ELSE IF Len(content) > MIN_CONTENT_CHARS THEN TRUE
    ELSE FALSE


-----------------------------------------------------------------------------
(* The insertion-ordered dict indexed_chunks: a sequence of DocumentChunk,  *)
(* keyed by metadata.chunk_id                                               *)

DictKeys(d) == {d[i].metadata.chunk_id : i \in 1..Len(d)}

\* d[key] = value: replaces in place when the key exists, appends otherwise
DictSet(d, key, value) ==
    IF key \in DictKeys(d)
    THEN [i \in 1..Len(d) |-> IF d[i].metadata.chunk_id = key THEN value ELSE d[i]]
    ELSE Append(d, value)

-----------------------------------------------------------------------------
(* POST /index, main.py:360-416 *)

\* faulty variant: a duplicate is passed over without being counted
SkipChunkUncounted(st) == st

\* main.py:390-392  a duplicate chunk is counted and passed over
SkipChunk(st) == [st EXCEPT !.skipped = @ + 1]

\* main.py:388-400  the loop over the prepared chunks, from chunk k on
RECURSIVE IndexLoop(_, _, _)
IndexLoop(chunks, k, st) ==
    IF k > Len(chunks) THEN st
    ELSE LET chunk == chunks[k]
         IN  IF is_duplicate(st.hashes, chunk.metadata.content_hash)
             THEN IndexLoop(chunks, k + 1, SkipChunk(st))
             ELSE IndexLoop(chunks, k + 1,
                     [store   |-> DictSet(st.store, chunk.metadata.chunk_id, chunk),
                      hashes  |-> mark_indexed(st.hashes, chunk.metadata.content_hash),
                      indexed |-> st.indexed + 1,
                      skipped |-> st.skipped,
                      written |-> Append(st.written, chunk.metadata.chunk_id)])

\* faulty variant: the extraction is scheduled whether or not it was asked for
add_task_unconditional(tasks, extract_entities, task) == Append(tasks, task)

\* main.py:403-409
add_task(tasks, extract_entities, task) ==
    IF extract_entities THEN Append(tasks, task) ELSE tasks

index_content(content, agent_id, source_type, source_id, extract_entities, retention_policy) ==
    /\ (extract_entities /\ should_index_to_rag(content, source_type))
          => Len(background_tasks) < MaxTasks
    /\ req' = [op |-> "index", content |-> content, agent_id |-> agent_id,
               source_type |-> source_type, source_id |-> source_id,
               extract_entities |-> extract_entities,
               retention_policy |-> retention_policy]
    /\ IF ~should_index_to_rag(content, source_type)
       THEN /\ resp' = [status |-> "skipped", reason |-> "content_type_excluded"]
            /\ UNCHANGED <<indexed_chunks, indexed_hashes, background_tasks>>
       ELSE LET chunks == prepare_chunks(content, agent_id, source_type, source_id,
                                         retention_policy, now)
                st == IndexLoop(chunks, 1, [store |-> indexed_chunks,
                                            hashes |-> indexed_hashes,
                                            indexed |-> 0, skipped |-> 0,
                                            written |-> <<>>])
            IN  /\ indexed_chunks' = st.store
                /\ indexed_hashes' = st.hashes
                /\ background_tasks' =
                       add_task(background_tasks, extract_entities,
                                [content |-> content, agent_id |-> agent_id,
                                 source_id |-> source_id])
                /\ resp' = [status |-> "success", indexed |-> st.indexed,
                            skipped |-> st.skipped, total_chunks |-> Len(chunks)]
    /\ UNCHANGED <<retention_settings, graph_nodes, graph_relations, now>>

\* main.py:253-266  EntityExtractor.extract returns two empty lists
extract(text, agent_id) == [nodes |-> <<>>, relations |-> <<>>]

\* main.py:418-425  the background task scheduled at position k runs
extract_and_store_entities(k) ==
    /\ k \in 1..Len(background_tasks)
    /\ LET task == background_tasks[k]
           found == extract(task.content, task.agent_id)
       IN  /\ graph_nodes' = graph_nodes \cup {found.nodes[i] : i \in 1..Len(found.nodes)}
           /\ graph_relations' = graph_relations \o found.relations
           /\ req' = [op |-> "task", agent_id |-> task.agent_id, source_id |-> task.source_id]
    /\ background_tasks' = [i \in 1..(Len(background_tasks) - 1) |->
                               IF i < k THEN background_tasks[i] ELSE background_tasks[i + 1]]
    /\ resp' = None
    /\ UNCHANGED <<indexed_chunks, indexed_hashes, retention_settings, now>>

-----------------------------------------------------------------------------
(* POST /search, main.py:427-472 *)

\* a >= b for fractions <<num, den>> with den > 0
FracGeq(a, b) == a[1] * b[2] >= b[1] * a[2]

FracEq(a, b) == a[1] * b[2] = b[1] * a[2]

FracAdd(a, b) == <<a[1] * b[2] + b[1] * a[2], a[2] * b[2]>>

\* faulty variant: the shared namespace is always searched
AgentFilterAlwaysShared(agent_id, include_shared) == {agent_id, SHARED}

\* main.py:441-443
AgentFilter(agent_id, include_shared) ==
    IF include_shared THEN {agent_id, SHARED} ELSE {agent_id}

\* main.py:453-455  the number of query words that occur in the chunk's text
Matches(chunk, query) ==
    LET content_lower == lower(chunk.content)
        query_words == split(lower(query))
    IN  Cardinality({k \in 1..Len(query_words) : Contains(content_lower, query_words[k])})

\* main.py:458  matches / len(query_words), taken only when matches > 0
Score(chunk, query) == <<Matches(chunk, query), Len(split(lower(query)))>>

\* main.py:449-459  whether the loop appends a result for this chunk
IsHit(chunk, query, agent_filter, min_score) ==
    /\ chunk.metadata.agent_id \in agent_filter
    /\ LET score == Score(chunk, query)
       IN  score[1] > 0 /\ FracGeq(score, min_score)

\* main.py:460-468
ResultOf(chunk, query) ==
    [content       |-> chunk.content,
     score         |-> Score(chunk, query),
     source_type   |-> chunk.metadata.source_type,
     source_id     |-> chunk.metadata.source_id,
     agent_id      |-> chunk.metadata.agent_id,
     timestamp     |-> chunk.metadata.timestamp,
     search_method |-> "bm25"]

\* list.sort(key=score, reverse=True): stable, equal scores keep their order
RECURSIVE SortByScore(_)
SortByScore(results) ==
    IF Len(results) <= 1 THEN results
    ELSE LET sorted == SortByScore(SubSeq(results, 1, Len(results) - 1))
             x == results[Len(results)]
             \* x goes after every element whose score is >= its own
             before == SelectSeq(sorted, LAMBDA r : FracGeq(r.score, x.score))
             after == SelectSeq(sorted, LAMBDA r : ~FracGeq(r.score, x.score))
         IN  before \o <<x>> \o after

SearchResults(store, query, agent_id, include_shared, limit, min_score) ==
    LET agent_filter == AgentFilter(agent_id, include_shared)
        hits == SelectSeq(store, LAMBDA c : IsHit(c, query, agent_filter, min_score))
        results == [i \in 1..Len(hits) |-> ResultOf(hits[i], query)]
    IN  PySlice(SortByScore(results), 0, limit)

hybrid_search(query, agent_id, include_shared, limit, min_score) ==
    /\ req' = [op |-> "search", query |-> query, agent_id |-> agent_id,
               include_shared |-> include_shared, limit |-> limit,
               min_score |-> min_score]
    /\ resp' = SearchResults(indexed_chunks, query, agent_id, include_shared, limit, min_score)
    /\ UNCHANGED <<indexed_chunks, indexed_hashes, retention_settings, graph_nodes,
                   graph_relations, background_tasks, now>>

-----------------------------------------------------------------------------
(* PUT /retention/{agent_id}, main.py:522-539 *)

\* faulty variant: applying a policy also stamps the chunk with the current time
ApplyPolicyRestamps(chunk, agent_id, policy, t) ==
    IF chunk.metadata.agent_id = agent_id
    THEN [chunk EXCEPT !.metadata.retention_policy = policy,
                       !.metadata.expires_at = ExpiryFor(policy, t),
                       !.metadata.timestamp = t]
    ELSE chunk

\* faulty variant: the policy is applied to every agent's chunks
ApplyPolicyToAll(chunk, agent_id, policy, t) ==
    [chunk EXCEPT !.metadata.retention_policy = policy,
                  !.metadata.expires_at = ExpiryFor(policy, t)]

\* main.py:530-536  the loop body applied to one chunk
ApplyPolicy(chunk, agent_id, policy, t) ==
    IF chunk.metadata.agent_id = agent_id
    THEN [chunk EXCEPT !.metadata.retention_policy = policy,
                       !.metadata.expires_at = ExpiryFor(policy, t)]
    ELSE chunk

set_retention_policy(agent_id, policy) ==
    /\ retention_settings' =
           [a \in DOMAIN retention_settings \cup {agent_id} |->
               IF a = agent_id THEN policy ELSE retention_settings[a]]
    /\ indexed_chunks' = [i \in 1..Len(indexed_chunks) |->
                             ApplyPolicy(indexed_chunks[i], agent_id, policy, now)]
    /\ req' = [op |-> "set_policy", agent_id |-> agent_id, policy |-> policy]
    /\ resp' = [status |-> "success", policy |-> policy,
                updated_chunks |-> Cardinality({i \in 1..Len(indexed_chunks) :
                                      indexed_chunks[i].metadata.agent_id = agent_id})]
    /\ UNCHANGED <<indexed_hashes, graph_nodes, graph_relations, background_tasks, now>>

-----------------------------------------------------------------------------
(* POST /cleanup, main.py:547-562 *)

\* faulty variant: every chunk with an expiry counts as expired, whatever the time
IsExpiredWhenDated(chunk, t) ==
    chunk.metadata.expires_at # None

\* faulty variant: a chunk already counts as expired at its expiry instant
IsExpiredInclusive(chunk, t) ==
    /\ chunk.metadata.expires_at # None
    /\ chunk.metadata.expires_at[1] <= t

\* main.py:555
IsExpired(chunk, t) ==
    /\ chunk.metadata.expires_at # None
    /\ chunk.metadata.expires_at[1] < t

cleanup_expired ==
    LET to_remove == {i \in 1..Len(indexed_chunks) : IsExpired(indexed_chunks[i], now)}
    IN  /\ indexed_chunks' = SelectSeq(indexed_chunks, LAMBDA c : ~IsExpired(c, now))
        /\ req' = [op |-> "cleanup"]
        /\ resp' = [status |-> "success", removed |-> Cardinality(to_remove)]
        /\ UNCHANGED <<indexed_hashes, retention_settings, graph_nodes, graph_relations,
                       background_tasks, now>>
    
-----------------------------------------------------------------------------
(* The clock *)

Tick(d) ==
    /\ now + d <= MaxTicks * 10
    /\ now' = now + d
    /\ req' = [op |-> "tick"]
    /\ resp' = None
    /\ UNCHANGED <<indexed_chunks, indexed_hashes, retention_settings, graph_nodes,
                   graph_relations, background_tasks>>

-----------------------------------------------------------------------------
(* chunk_text step by step, main.py:163-176 *)

\* main.py:166-169
ChunkBegin ==
    /\ ck_pc = "start"
    /\ ck_words' = split(ck_text)
    /\ ck_chunks' = <<>>
    /\ ck_i' = 0
    /\ ck_pc' = "loop"
    /\ UNCHANGED <<ck_text, ck_size, ck_overlap>>
    /\ UNCHANGED svc_vars

\* main.py:170-174  one iteration of the while loop
ChunkIter ==
    /\ ck_pc = "loop"
    /\ ck_i < Len(ck_words)
    /\ Len(ck_chunks) < MaxChunkSteps
    /\ ck_chunks' = Append(ck_chunks, ChunkWindow(ck_words, ck_i, ck_size))
    /\ ck_i' = NextStart(ck_i, ck_size, ck_overlap)
    /\ UNCHANGED <<ck_text, ck_size, ck_overlap, ck_words, ck_pc>>
    /\ UNCHANGED svc_vars

\* main.py:170, 176  the loop condition fails and the chunks are returned
ChunkReturn ==
    /\ ck_pc = "loop"
    /\ ~(ck_i < Len(ck_words))
    /\ ck_pc' = "done"
    /\ UNCHANGED <<ck_text, ck_size, ck_overlap, ck_words, ck_chunks, ck_i>>
    /\ UNCHANGED svc_vars

-----------------------------------------------------------------------------
(* Initial states *)

SvcInit ==
    /\ indexed_chunks = <<>>
    /\ indexed_hashes = {}
    /\ retention_settings = <<>>
    /\ graph_nodes = {}
    /\ graph_relations = <<>>
    /\ background_tasks = <<>>
    /\ now = 0
    /\ req = [op |-> "none"]
    /\ resp = None
    /\ succeeded = {}
    /\ write_log = <<>>

CkIdle ==
    /\ ck_text = <<>>
    /\ ck_size = DEFAULT_CHUNK_SIZE
    /\ ck_overlap = DEFAULT_OVERLAP
    /\ ck_words = <<>>
    /\ ck_chunks = <<>>
    /\ ck_i = 0
    /\ ck_pc = "idle"

Init == SvcInit /\ CkIdle

\* the texts of at most n characters over a letter and a blank
RECURSIVE TextsUpTo(_)
TextsUpTo(n) ==
    IF n = 0 THEN {<<>>}
    ELSE LET shorter == TextsUpTo(n - 1)
         IN  shorter \cup {Append(t, c) : t \in shorter, c \in {"a", " "}}

ChunkInit ==
    /\ SvcInit
    /\ ck_text \in TextsUpTo(MaxTextLen)
    /\ ck_size \in 1..MaxChunkSize
    /\ ck_overlap \in 0..MaxChunkSize
    /\ ck_words = <<>>
    /\ ck_chunks = <<>>
    /\ ck_i = 0
    /\ ck_pc = "start"

-----------------------------------------------------------------------------
(* Requests *)

Ingest(content, agent_id, source_type, source_id, extract_entities, retention_policy) ==
    /\ index_content(content, agent_id, source_type, source_id, extract_entities,
                     retention_policy)
    /\ UNCHANGED <<hist_vars, ck_vars>>

\* an ingest that also records, for the claims, that it was answered "success"
RecordedIngest(content, agent_id, source_type, source_id, extract_entities, retention_policy) ==
    /\ index_content(content, agent_id, source_type, source_id, extract_entities,
                     retention_policy)
    /\ succeeded' = IF resp'.status = "success"
                    THEN succeeded \cup {<<content, agent_id, source_id>>}
                    ELSE succeeded
    /\ write_log' =
           IF should_index_to_rag(content, source_type)
           THEN write_log \o IndexLoop(prepare_chunks(content, agent_id, source_type,
                                                      source_id, retention_policy, now),
                                       1, [store |-> indexed_chunks,
                                           hashes |-> indexed_hashes,
                                           indexed |-> 0, skipped |-> 0,
                                           written |-> <<>>]).written
           ELSE write_log
    /\ UNCHANGED ck_vars

RunTask ==
    /\ \E k \in 1..MaxTasks : extract_and_store_entities(k)
    /\ UNCHANGED <<hist_vars, ck_vars>>

Search ==
    /\ \E query \in Queries, agent_id \in Agents, include_shared \in BOOLEAN,
          limit \in Limits, min_score \in MinScores :
           hybrid_search(query, agent_id, include_shared, limit, min_score)
    /\ UNCHANGED <<hist_vars, ck_vars>>

SetPolicy ==
    /\ \E agent_id \in Agents, policy \in {"infinite", "30_days"} :
           set_retention_policy(agent_id, policy)
    /\ UNCHANGED <<hist_vars, ck_vars>>

Cleanup ==
    /\ cleanup_expired
    /\ UNCHANGED <<hist_vars, ck_vars>>

Advance ==
    /\ \E d \in TickDays : Tick(d)
    /\ UNCHANGED <<hist_vars, ck_vars>>

-----------------------------------------------------------------------------
(* The inclusion gate: every source type and every length, one agent *)

GateIndex ==
    \E content \in {TxtEmpty, TxtShort, Txt100, Txt101}, source_type \in SourceTypes,
       extract_entities \in BOOLEAN :
        Ingest(content, "alice", source_type, "s1", extract_entities, "infinite")

GateNext == GateIndex \/ RunTask \/ Cleanup

SpecGate == Init /\ [][GateNext]_vars

-----------------------------------------------------------------------------
(* Deduplication: repeated ingests, with expiry and sweeps in between *)

DedupIndex ==
    \E content \in {Txt101, TxtLong}, agent_id \in Agents,
       source_type \in {"conversation", "system"} :
        RecordedIngest(content, agent_id, source_type, "s1", FALSE, "10_days")

DedupNext == DedupIndex \/ Cleanup \/ Advance

SpecDedup == Init /\ [][DedupNext]_vars

-----------------------------------------------------------------------------
(* Retention: policies, expiry and sweeps over the records of two agents *)

RetentionIndex ==
    \E content \in {TxtShort, Txt101}, agent_id \in Agents,
       retention_policy \in {"infinite", "10_days"} :
        Ingest(content, agent_id, "document", "s1", FALSE, retention_policy)

RetentionNext == RetentionIndex \/ SetPolicy \/ Cleanup \/ Advance

SpecRetention == Init /\ [][RetentionNext]_vars

-----------------------------------------------------------------------------
(* Search over the records of two agents, some of them expired *)

SearchIndex ==
    \E content \in {TxtShort, Txt101}, agent_id \in Agents :
        Ingest(content, agent_id, "document", "s1", FALSE, "10_days")

SearchNext == SearchIndex \/ Search \/ Advance

SpecSearch == Init /\ [][SearchNext]_vars

-----------------------------------------------------------------------------
(* One call of chunk_text *)

ChunkNext == ChunkBegin \/ ChunkIter \/ ChunkReturn

SpecChunk == ChunkInit /\ [][ChunkNext]_vars

-----------------------------------------------------------------------------
(* Properties *)

Skipped == [status |-> "skipped", reason |-> "content_type_excluded"]

\* the positions of the stored chunks a search result was built from
OriginsOf(result) ==
    {i \in 1..Len(indexed_chunks) :
        /\ indexed_chunks[i].content = result.content
        /\ indexed_chunks[i].metadata.agent_id = result.agent_id
        /\ indexed_chunks[i].metadata.source_id = result.source_id
        /\ indexed_chunks[i].metadata.timestamp = result.timestamp}

\* C1: once ingest(C, agent_id, source_id) has been answered "success", a later
\* admitted ingest of the same C for the same (agent_id, source_id) answers
\* indexed = 0 and skipped = total_chunks and leaves the chunk store as it was.
C1_ReingestSkipsAll ==
    [][(/\ req'.op = "index"
        /\ <<req'.content, req'.agent_id, req'.source_id>> \in succeeded
        /\ should_index_to_rag(req'.content, req'.source_type))
       => (/\ resp'.status = "success"
           /\ resp'.indexed = 0
           /\ resp'.skipped = resp'.total_chunks
           /\ indexed_chunks' = indexed_chunks)]_vars

\* a second ingest of the three-window content by the agent that owns its first window
C1_Witness ==
    /\ req.op = "index"
    /\ <<req.content, req.agent_id, req.source_id>> \in succeeded
    /\ resp.status = "success"
    /\ resp.total_chunks = 3
    /\ resp.indexed = 0
    /\ resp.skipped = 3
    /\ \E i \in 1..Len(indexed_chunks) :
          /\ indexed_chunks[i].metadata.agent_id = req.agent_id
          /\ indexed_chunks[i].content = DefaultChunks[req.content][1]

\* the chunks a sweep at instant t is said to remove: expiry set and <= t
DueUpTo(t) ==
    {i \in 1..Len(indexed_chunks) :
        /\ indexed_chunks[i].metadata.expires_at # None
        /\ indexed_chunks[i].metadata.expires_at[1] <= t}

\* the chunks whose expiry is set and strictly before t
DueBefore(t) ==
    {i \in 1..Len(indexed_chunks) :
        /\ indexed_chunks[i].metadata.expires_at # None
        /\ indexed_chunks[i].metadata.expires_at[1] < t}

\* the store after a sweep holds exactly the chunks outside `gone`, unchanged
\* and in their order, and the sweep reports Cardinality(gone)
SweepRemoved(gone) ==
    /\ Len(indexed_chunks') = Len(indexed_chunks) - Cardinality(gone)
    /\ \A i \in 1..Len(indexed_chunks) :
          i \notin gone =>
             indexed_chunks'[i - Cardinality({j \in gone : j < i})] = indexed_chunks[i]
    /\ resp'.removed = Cardinality(gone)

\* C2 (as claimed): a sweep at instant now removes exactly the records whose
\* expires_at is non-null and <= now, the one expiring at now included, removes
\* nothing else and reports their number.
C2_SweepRemovesUpToNow == [][req'.op = "cleanup" => SweepRemoved(DueUpTo(now))]_vars

\* C2 (amended): a sweep at instant now removes exactly the records whose
\* expires_at is non-null and strictly before now, removes nothing else and
\* reports their number; a record expiring exactly at now stays.
C2_SweepRemovesPast == [][req'.op = "cleanup" => SweepRemoved(DueBefore(now))]_vars

\* a sweep removed a record and kept one that expires at this very instant
C2_Witness ==
    /\ req.op = "cleanup"
    /\ resp.removed >= 1
    /\ \E i \in 1..Len(indexed_chunks) : indexed_chunks[i].metadata.expires_at = Some(now)

\* C3: a search never returns a record whose expires_at is non-null and has
\* passed at the time of the search, also when the record is still stored.
C3_SearchHidesExpired ==
    req.op = "search" =>
        \A k \in 1..Len(resp) :
            \A i \in OriginsOf(resp[k]) :
                ~(/\ indexed_chunks[i].metadata.expires_at # None
                  /\ indexed_chunks[i].metadata.expires_at[1] < now)

\* the day count the claim gives for a finite policy
ClaimedDays(policy) ==
    CASE policy = "10_days"  -> 10
      [] policy = "30_days"  -> 30
      [] policy = "3_months" -> 90
      [] policy = "6_months" -> 180
      [] policy = "1_year"   -> 365

\* C4: set_policy(agent_id, P) at instant now gives every stored record of that
\* agent retention_policy = P and expires_at = now + days(P), or null when P is
\* infinite; it reports the number of that agent's records and leaves the
\* records of every other agent as they were.
C4_SetPolicyRewritesAgent ==
    [][req'.op = "set_policy" =>
        /\ Len(indexed_chunks') = Len(indexed_chunks)
        /\ \A i \in 1..Len(indexed_chunks) :
              IF indexed_chunks[i].metadata.agent_id = req'.agent_id
              THEN /\ indexed_chunks'[i].metadata.retention_policy = req'.policy
                   /\ indexed_chunks'[i].metadata.expires_at =
                          IF req'.policy = "infinite" THEN None
                          ELSE Some(now + ClaimedDays(req'.policy))
              ELSE indexed_chunks'[i] = indexed_chunks[i]
        /\ resp'.updated_chunks =
               Cardinality({i \in 1..Len(indexed_chunks) :
                               indexed_chunks[i].metadata.agent_id = req'.agent_id})]_vars

\* 30_days was set, after the clock moved, for an agent with a record, while
\* another agent's record keeps its 10-day expiry
C4_Witness ==
    /\ req.op = "set_policy"
    /\ req.policy = "30_days"
    /\ now > 0
    /\ resp.updated_chunks >= 1
    /\ \E i \in 1..Len(indexed_chunks) :
          /\ indexed_chunks[i].metadata.agent_id = req.agent_id
          /\ indexed_chunks[i].metadata.expires_at = Some(now + 30)
    /\ \E i \in 1..Len(indexed_chunks) :
          /\ indexed_chunks[i].metadata.agent_id # req.agent_id
          /\ indexed_chunks[i].metadata.retention_policy = "10_days"

\* every result is owned by the requesting agent or, when include_shared is
\* set, by the shared namespace
OwnedOrShared ==
    \A k \in 1..Len(resp) :
        \/ resp[k].agent_id = req.agent_id
        \/ req.include_shared /\ resp[k].agent_id = SHARED

\* C5 (as claimed): with include_shared = false no result is owned by the shared
\* namespace, whichever agent asks; and every result is owned by the requesting
\* agent or (only if include_shared) by the shared namespace.
C5_NoSharedUnlessIncluded ==
    req.op = "search" =>
        /\ ~req.include_shared => \A k \in 1..Len(resp) : resp[k].agent_id # SHARED
        /\ OwnedOrShared

\* C5 (amended): with include_shared = false and a requesting agent other than
\* "shared" no result is owned by the shared namespace; and every result is
\* owned by the requesting agent or (only if include_shared) by the shared
\* namespace.
C5_NoSharedForOtherAgents ==
    req.op = "search" =>
        /\ (~req.include_shared /\ req.agent_id # SHARED)
              => \A k \in 1..Len(resp) : resp[k].agent_id # SHARED
        /\ OwnedOrShared

\* a search without shared content returned the agent's own record although a
\* shared record scores higher
C5_Witness ==
    /\ req.op = "search"
    /\ ~req.include_shared
    /\ req.agent_id # SHARED
    /\ Len(resp) = 1
    /\ \E i \in 1..Len(indexed_chunks) :
          /\ indexed_chunks[i].metadata.agent_id = SHARED
          /\ FracGeq(Score(indexed_chunks[i], req.query), req.min_score)
          /\ ~FracGeq(resp[1].score, Score(indexed_chunks[i], req.query))

-----------------------------------------------------------------------------
(* Reciprocal Rank Fusion as the design describes it *)

\* 1/(k + r), k = 60, for the candidate at 1-based rank r of the list, 0 when absent
RRFContribution(list, x) ==
    IF \E r \in 1..Len(list) : list[r] = x
    THEN <<1, 60 + (CHOOSE r \in 1..Len(list) : list[r] = x)>>
    ELSE <<0, 1>>

\* the sum of the candidate's contributions over the backend lists
RECURSIVE RRFScore(_, _)
RRFScore(lists, x) ==
    IF lists = <<>> THEN <<0, 1>>
    ELSE FracAdd(RRFContribution(Head(lists), x), RRFScore(Tail(lists), x))

\* C6: the score by which results are ranked is Reciprocal Rank Fusion: the
\* result at 1-based rank r of a backend's list scores 1/(k + r), summed over
\* the backend lists that hold it, with k = 60.  The service consults one
\* backend, the keyword scan, whose list is the order of the results.
C6_ScoreIsRRF ==
    req.op = "search" =>
        \A k \in 1..Len(resp) : FracEq(resp[k].score, RRFScore(<<resp>>, resp[k]))

\* the stored chunks the request may see that reach min_score
Eligible ==
    {i \in 1..Len(indexed_chunks) :
        /\ \/ indexed_chunks[i].metadata.agent_id = req.agent_id
           \/ req.include_shared /\ indexed_chunks[i].metadata.agent_id = SHARED
        /\ FracGeq(Score(indexed_chunks[i], req.query), req.min_score)}

\* C7: the returned list is in non-increasing score order, every result has
\* score >= min_score, every eligible record with score >= min_score that is
\* missing ranks no higher than the last returned one, and the list has at most
\* limit entries (none for a limit below 0, which no list can meet otherwise),
\* for every limit and min_score the request model accepts.
C7_SortedFilteredLimited ==
    req.op = "search" =>
        /\ \A k \in 1..(Len(resp) - 1) : FracGeq(resp[k].score, resp[k + 1].score)
        /\ \A k \in 1..Len(resp) : FracGeq(resp[k].score, req.min_score)
        /\ \A i \in Eligible :
              (Len(resp) > 0 /\ \A k \in 1..Len(resp) : i \notin OriginsOf(resp[k]))
                 => FracGeq(resp[Len(resp)].score, Score(indexed_chunks[i], req.query))
        /\ Len(resp) <= Max(req.limit, 0)

\* C8: an ingest with source_type "system" answers {status: skipped, reason:
\* content_type_excluded} whatever the length of the content, and leaves the
\* chunk store, the fingerprint set and the background tasks as they were.
C8_SystemAlwaysSkipped ==
    [][(req'.op = "index" /\ req'.source_type = "system")
       => (/\ resp' = Skipped
           /\ indexed_chunks' = indexed_chunks
           /\ indexed_hashes' = indexed_hashes
           /\ background_tasks' = background_tasks)]_vars

\* a system message of more than 100 characters, with extraction asked for,
\* was skipped while the store already held a chunk
C8_Witness ==
    /\ req.op = "index"
    /\ req.source_type = "system"
    /\ Len(req.content) > 100
    /\ req.extract_entities
    /\ resp = Skipped
    /\ indexed_chunks # <<>>

\* the requests the claim says the gate admits
ClaimedAdmitted(content, source_type) ==
    \/ source_type \in {"document", "conversation_complete"}
    \/ source_type # "system" /\ Len(content) > 100

\* C9: the gate admits content exactly when source_type is document or
\* conversation_complete (any length, the empty content included) or
\* source_type is not system and the content has more than 100 characters;
\* everything else, content of exactly 100 characters included, is answered
\* {status: skipped, reason: content_type_excluded} and changes no state.
C9_GateAdmitsExactly ==
    [][req'.op = "index" =>
        IF ClaimedAdmitted(req'.content, req'.source_type)
        THEN resp'.status = "success"
        ELSE /\ resp' = Skipped
             /\ UNCHANGED <<indexed_chunks, indexed_hashes, retention_settings,
                            graph_nodes, graph_relations, background_tasks, now>>]_vars

\* a conversation turn of exactly 100 characters was skipped
C9_Witness ==
    /\ req.op = "index"
    /\ req.source_type = "conversation"
    /\ Len(req.content) = 100
    /\ resp = Skipped

\* C10: chunk_text called with overlap >= chunk_size on a non-empty text fails
\* before it produces any window, so the window start never fails to advance.
C10_NoWindowWhenOverlapTooLarge ==
    (ck_overlap >= ck_size /\ ck_text # <<>>) => ck_chunks = <<>>

-----------------------------------------------------------------------------
(* The windows of a finished chunk_text call *)

\* the tokens of the k-th returned window
WindowTokens(k) == split(ck_chunks[k])

\* the 0-based start the claim gives the k-th window
ClaimedStart(k) == (k - 1) * (ck_size - ck_overlap)

\* the number of tokens the k-th window has in common with the next one
SharedWithNext(k) == ClaimedStart(k) + Len(WindowTokens(k)) - ClaimedStart(k + 1)

\* C11: for 0 <= overlap < chunk_size, the windows chunk_text returns start
\* chunk_size - overlap tokens apart, cover every token in order, only the
\* last window is shorter than chunk_size, and every adjacent pair except the
\* one ending in a short last window shares exactly overlap tokens.
C11_WindowsTileTheTokens ==
    (ck_pc = "done" /\ ck_overlap < ck_size) =>
        LET n == Len(ck_words)
            W == Len(ck_chunks)
        IN  /\ \A k \in 1..W :
                   WindowTokens(k) =
                       SubSeq(ck_words, ClaimedStart(k) + 1,
                              Min(ClaimedStart(k) + ck_size, n))
            /\ \A j \in 1..n :
                   \E k \in 1..W :
                       /\ ClaimedStart(k) < j
                       /\ j <= ClaimedStart(k) + Len(WindowTokens(k))
            /\ \A k \in 1..(W - 1) : Len(WindowTokens(k)) = ck_size
            /\ \A k \in 1..(W - 1) :
                   \/ k + 1 = W /\ Len(WindowTokens(W)) < ck_size
                   \/ SharedWithNext(k) = ck_overlap

-----------------------------------------------------------------------------
(* The chunk store: one agent's ingests under two source ids, with policy
   changes, expiry and sweeps in between *)

StoreIndex ==
    \E content \in {Txt101, TxtLong}, source_id \in {"s1", "s2"} :
        Ingest(content, "alice", "document", source_id, FALSE, "10_days")

StoreNext == StoreIndex \/ SetPolicy \/ Cleanup \/ Advance

SpecStore == Init /\ [][StoreNext]_vars

\* C12: after every ingest, set_policy and sweep, no two stored records of one
\* agent have the same content fingerprint, and an ingest leaves every record
\* that was already stored as it was.
C12_OneRecordPerFingerprint ==
    [][/\ \A i, j \in 1..Len(indexed_chunks') :
              (/\ i # j
               /\ indexed_chunks'[i].metadata.agent_id =
                      indexed_chunks'[j].metadata.agent_id)
                  => indexed_chunks'[i].metadata.content_hash #
                         indexed_chunks'[j].metadata.content_hash
       /\ req'.op = "index" =>
              /\ Len(indexed_chunks') >= Len(indexed_chunks)
              /\ \A i \in 1..Len(indexed_chunks) : indexed_chunks'[i] = indexed_chunks[i]
      ]_vars

\* a content with two identical windows was ingested after another content:
\* three records are stored and the repeated window was skipped
C12_Witness ==
    /\ req.op = "index"
    /\ req.content = TxtLong
    /\ resp.status = "success"
    /\ resp.indexed = 2
    /\ resp.skipped = 1
    /\ Len(indexed_chunks) = 3

-----------------------------------------------------------------------------
(* Ingesting again what a sweep has removed *)

\* the chunks the ingest request r prepares at time t
RequestChunks(r, t) ==
    prepare_chunks(r.content, r.agent_id, r.source_type, r.source_id,
                   r.retention_policy, t)

\* the chunk ids that were stored at some time and are in the store no more
SweptIds ==
    {write_log[i] : i \in 1..Len(write_log)} \ DictKeys(indexed_chunks)

\* C13: an ingest of content whose records, stored earlier for the same agent
\* and source, have expired and been removed by a sweep is treated as new: it
\* indexes chunks, and the removed records are in the store again with an
\* expiry computed from the time of this ingest.
C13_ReingestAfterSweepIsNew ==
    [][(/\ req'.op = "index"
        /\ resp'.status = "success"
        /\ \E k \in 1..Len(RequestChunks(req', now)) :
               RequestChunks(req', now)[k].metadata.chunk_id \in SweptIds)
       => /\ resp'.indexed > 0
          /\ \A k \in 1..Len(RequestChunks(req', now)) :
                 RequestChunks(req', now)[k].metadata.chunk_id \in SweptIds
                     => \E i \in 1..Len(indexed_chunks') :
                            indexed_chunks'[i] = RequestChunks(req', now)[k]
      ]_vars

-----------------------------------------------------------------------------
(* The life of a record: every operation of the service, one agent ingesting *)

LifecycleIndex ==
    \E content \in {TxtShort, Txt101}, extract_entities \in BOOLEAN :
        Ingest(content, "alice", "document", "s1", extract_entities, "10_days")

LifecycleSearch ==
    /\ \E agent_id \in Agents :
           hybrid_search(<<"a", " ", "B">>, agent_id, TRUE, 10, <<1, 2>>)
    /\ UNCHANGED <<hist_vars, ck_vars>>

LifecycleNext ==
    LifecycleIndex \/ RunTask \/ LifecycleSearch \/ SetPolicy \/ Cleanup \/ Advance

SpecLifecycle == Init /\ [][LifecycleNext]_vars

\* the fields that identify a record and its origin
Identity(chunk) ==
    <<chunk.metadata.chunk_id, chunk.metadata.agent_id, chunk.metadata.source_id,
      chunk.metadata.content_hash, chunk.content, chunk.metadata.timestamp>>

\* the record with its retention policy and expiry blanked out
WithoutRetention(chunk) ==
    [chunk EXCEPT !.metadata.retention_policy = "", !.metadata.expires_at = None]

\* C14: a stored record keeps its chunk_id, agent_id, source_id, content_hash,
\* content and timestamp through every ingest, set_policy, sweep, search and
\* extraction task; set_policy changes nothing of a record but its
\* retention_policy and expires_at, every other operation changes nothing of
\* it at all; and the store holds one record per chunk_id.
C14_IdentityIsImmutable ==
    [][/\ \A i \in 1..Len(indexed_chunks), j \in 1..Len(indexed_chunks') :
              indexed_chunks[i].metadata.chunk_id = indexed_chunks'[j].metadata.chunk_id
                  => /\ Identity(indexed_chunks'[j]) = Identity(indexed_chunks[i])
                     /\ WithoutRetention(indexed_chunks'[j]) =
                            WithoutRetention(indexed_chunks[i])
                     /\ req'.op # "set_policy" => indexed_chunks'[j] = indexed_chunks[i]
       /\ \A i, j \in 1..Len(indexed_chunks') :
              indexed_chunks'[i].metadata.chunk_id = indexed_chunks'[j].metadata.chunk_id
                  => i = j
      ]_vars

\* a policy was set for an agent whose record was created on an earlier day:
\* the record carries the new policy and its creation time
C14_Witness ==
    /\ req.op = "set_policy"
    /\ req.policy = "30_days"
    /\ \E i \in 1..Len(indexed_chunks) :
           /\ indexed_chunks[i].metadata.agent_id = req.agent_id
           /\ indexed_chunks[i].metadata.retention_policy = "30_days"
           /\ indexed_chunks[i].metadata.timestamp < now

-----------------------------------------------------------------------------
(* Concurrent ingest requests.  index_content is a coroutine without an await
   (main.py:360-416), so the event loop runs each call from its first line to
   its return before it starts another: requests that arrive together
   interleave as whole runs of the handler, in any order.  The steps of
   SpecDedup are these runs; write_log lists every store at main.py:398, which
   is every time is_duplicate was observed false. *)

\* the fingerprint inside a chunk id
HashOf(chunk_id) == chunk_id[4]

\* C15: whatever the order of ingest requests with the same chunk text, a
\* fingerprint is observed as new and stored by at most one of them, and the
\* indexed counts of all requests add up to the number of distinct
\* fingerprints marked.
C15_StoredByOneRequest ==
    [][/\ \A i, j \in 1..Len(write_log') :
              HashOf(write_log'[i]) = HashOf(write_log'[j]) => i = j
       /\ Len(write_log') = Cardinality(indexed_hashes')
       /\ (req'.op = "index" /\ resp'.status = "success")
              => resp'.indexed = Len(write_log') - Len(write_log)
       /\ (req'.op = "index" /\ resp'.status = "success")
              => resp'.indexed = Cardinality(indexed_hashes' \ indexed_hashes)
      ]_vars

\* two agents sent the same text: the request that ran second stored nothing,
\* its chunk being stored by the other agent's request
C15_Witness ==
    /\ req.op = "index"
    /\ resp.status = "success"
    /\ resp.indexed = 0
    /\ resp.skipped = 1
    /\ \E i \in 1..Len(write_log) :
           /\ write_log[i][1] # req.agent_id
           /\ HashOf(write_log[i]) = compute_hash(DefaultChunks[req.content][1])

-----------------------------------------------------------------------------
(* The extraction task *)

\* C16: an admitted ingest with extract_entities schedules exactly one
\* extraction task, after its chunks are stored and its counts are fixed, and
\* an ingest without extract_entities schedules none; a task that runs later
\* is the one taken from the queue and leaves the chunk store and the dedup
\* set as they were.
C16_ExtractionIsDetached ==
    [][/\ (req'.op = "index" /\ resp'.status = "success" /\ req'.extract_entities)
              => /\ Len(background_tasks') = Len(background_tasks) + 1
                 /\ SubSeq(background_tasks', 1, Len(background_tasks)) = background_tasks
                 /\ background_tasks'[Len(background_tasks')] =
                        [content |-> req'.content, agent_id |-> req'.agent_id,
                         source_id |-> req'.source_id]
       /\ (req'.op = "index" /\ ~req'.extract_entities)
              => background_tasks' = background_tasks
       /\ req'.op = "task"
              => /\ indexed_chunks' = indexed_chunks
                 /\ indexed_hashes' = indexed_hashes
                 /\ Len(background_tasks') = Len(background_tasks) - 1
      ]_vars

\* the task of an ingest that stored a chunk has run
C16_Witness ==
    /\ req.op = "task"
    /\ req.agent_id = "alice"
    /\ background_tasks = <<>>
    /\ indexed_chunks # <<>>
    /\ indexed_hashes # {}

-----------------------------------------------------------------------------
(* Sweeps next to each other and next to ingests.  cleanup_expired has no
   await either (main.py:547-562): a sweep and the ingests that arrive with it
   interleave as whole runs of their handlers. *)

\* the expiry of the chunk lies after t, or the chunk has none
NotYetDue(chunk, t) ==
    \/ chunk.metadata.expires_at = None
    \/ chunk.metadata.expires_at[1] > t

\* C17: a sweep that directly follows a sweep, at the same instant, removes
\* nothing and reports removed = 0; no sweep removes a record whose expiry
\* has not passed, so a record an ingest has just stored survives the sweep
\* that runs next; and an ingest that runs next to a sweep loses no record.
C17_SweepIsIdempotentAndSafe ==
    [][/\ (req.op = "cleanup" /\ req'.op = "cleanup")
              => /\ indexed_chunks' = indexed_chunks
                 /\ resp'.removed = 0
       /\ req'.op = "cleanup"
              => /\ \A i \in 1..Len(indexed_chunks) :
                        NotYetDue(indexed_chunks[i], now)
                            => \E j \in 1..Len(indexed_chunks') :
                                   indexed_chunks'[j] = indexed_chunks[i]
                 /\ resp'.removed = Len(indexed_chunks) - Len(indexed_chunks')
       /\ req'.op = "index"
              => \A i \in 1..Len(indexed_chunks) :
                     \E j \in 1..Len(indexed_chunks') :
                         indexed_chunks'[j] = indexed_chunks[i]
      ]_vars

\* a sweep ran after an earlier sweep had removed an expired record: it
\* removed nothing and kept the record that is not yet due
C17_Witness ==
    /\ req.op = "cleanup"
    /\ resp.removed = 0
    /\ indexed_hashes \ {indexed_chunks[i].metadata.content_hash :
                            i \in 1..Len(indexed_chunks)} # {}
    /\ \E i \in 1..Len(indexed_chunks) :
           /\ indexed_chunks[i].metadata.expires_at # None
           /\ indexed_chunks[i].metadata.expires_at[1] > now

-----------------------------------------------------------------------------
(* Every retention policy, at ingestion and set later, with searches and
   sweeps in between *)

PolicyIndex ==
    \/ \E retention_policy \in RetentionPolicy :
           Ingest(TxtShort, "alice", "document", "s1", FALSE, retention_policy)
    \/ Ingest(Txt101, SHARED, "document", "s1", FALSE, "infinite")

PolicySet ==
    /\ \E policy \in RetentionPolicy : set_retention_policy("alice", policy)
    /\ UNCHANGED <<hist_vars, ck_vars>>

PolicyNext == PolicyIndex \/ PolicySet \/ LifecycleSearch \/ Cleanup \/ Advance

SpecPolicy == Init /\ [][PolicyNext]_vars

\* the expiry the claim gives a record to which policy is applied at time t
ClaimedExpiry(policy, t) ==
    IF policy = "infinite" THEN None ELSE Some(t + ClaimedDays(policy))

\* C18: a stored record has no expiry exactly when its policy is infinite;
\* the record an ingest stores, and every record a set_policy applies to,
\* expires at the time of that operation plus the day count of its policy
\* (10, 30, 90, 180 or 365); and every other step, a search and a sweep among
\* them, leaves the policy and the expiry of every record it keeps as they were.
C18_ExpiryFollowsLastPolicy ==
    [][/\ \A j \in 1..Len(indexed_chunks') :
              (indexed_chunks'[j].metadata.expires_at = None)
                  <=> (indexed_chunks'[j].metadata.retention_policy = "infinite")
       /\ \A j \in 1..Len(indexed_chunks') :
              LET new == indexed_chunks'[j].metadata
                  applied ==
                      \/ /\ req'.op = "index"
                         /\ new.chunk_id \notin DictKeys(indexed_chunks)
                      \/ /\ req'.op = "set_policy"
                         /\ new.agent_id = req'.agent_id
              IN  IF applied
                  THEN new.expires_at = ClaimedExpiry(new.retention_policy, now)
                  ELSE \E i \in 1..Len(indexed_chunks) :
                           /\ indexed_chunks[i].metadata.chunk_id = new.chunk_id
                           /\ indexed_chunks[i].metadata.retention_policy =
                                  new.retention_policy
                           /\ indexed_chunks[i].metadata.expires_at = new.expires_at
       /\ req'.op = "index" =>
              \A j \in 1..Len(indexed_chunks') :
                  indexed_chunks'[j].metadata.chunk_id \notin DictKeys(indexed_chunks)
                      => indexed_chunks'[j].metadata.retention_policy =
                             req'.retention_policy
       /\ req'.op = "set_policy" =>
              \A j \in 1..Len(indexed_chunks') :
                  indexed_chunks'[j].metadata.agent_id = req'.agent_id
                      => indexed_chunks'[j].metadata.retention_policy = req'.policy
      ]_vars

\* a search ran over a record that was ingested without expiry and later
\* given the three-month policy: it expires 90 days after that change
C18_Witness ==
    /\ req.op = "search"
    /\ \E i \in 1..Len(indexed_chunks) :
           /\ indexed_chunks[i].metadata.retention_policy = "3_months"
           /\ indexed_chunks[i].metadata.timestamp = 0
           /\ indexed_chunks[i].metadata.expires_at = Some(100)
    /\ \E i \in 1..Len(indexed_chunks) :
           indexed_chunks[i].metadata.expires_at = None

-----------------------------------------------------------------------------
(* Identical text from two agents *)

\* the fingerprints of the chunks of content
ContentHashes(content) ==
    {compute_hash(DefaultChunks[content][k]) : k \in 1..Len(DefaultChunks[content])}

\* the fingerprints of content that a record of another agent than agent_id holds
HeldByOthers(content, agent_id) ==
    {h \in ContentHashes(content) :
        \E i \in 1..Len(indexed_chunks) :
            /\ indexed_chunks[i].metadata.content_hash = h
            /\ indexed_chunks[i].metadata.agent_id # agent_id}

\* C19: fingerprints are remembered for all agents together: an ingest indexes
\* only chunks whose fingerprint no agent has indexed before and counts the
\* others as skipped; yet after an ingest of text that another agent has
\* stored, the ingesting agent has a record of its own for that text.
C19_SharedDedupOwnRecords ==
    [][(req'.op = "index" /\ resp'.status = "success")
       => /\ resp'.indexed =
                 Cardinality(ContentHashes(req'.content) \ indexed_hashes)
          /\ resp'.skipped = resp'.total_chunks - resp'.indexed
          /\ \A h \in HeldByOthers(req'.content, req'.agent_id) :
                 \E j \in 1..Len(indexed_chunks') :
                     /\ indexed_chunks'[j].metadata.content_hash = h
                     /\ indexed_chunks'[j].metadata.agent_id = req'.agent_id
      ]_vars

-----------------------------------------------------------------------------
(* The counts of an ingest *)

\* C20: an admitted ingest answers indexed + skipped = total_chunks, with
\* total_chunks the number of windows chunk_text returns for the content; the
\* chunk store grows by indexed records and the dedup set by indexed
\* fingerprints, also for a content in which one chunk text occurs twice.
C20_CountsAddUp ==
    [][(req'.op = "index" /\ should_index_to_rag(req'.content, req'.source_type))
       => /\ resp'.status = "success"
          /\ resp'.indexed + resp'.skipped = resp'.total_chunks
          /\ resp'.total_chunks = Len(DefaultChunks[req'.content])
          /\ Len(indexed_chunks') = Len(indexed_chunks) + resp'.indexed
          /\ Cardinality(indexed_hashes') = Cardinality(indexed_hashes) + resp'.indexed
          /\ indexed_hashes \subseteq indexed_hashes'
      ]_vars

\* the first ingest of the content whose first two windows have the same
\* text, into a store that holds another agent's record: two chunks indexed,
\* one skipped
C20_Witness ==
    /\ req.op = "index"
    /\ req.content = TxtLong
    /\ DefaultChunks[TxtLong][1] = DefaultChunks[TxtLong][2]
    /\ resp.total_chunks = 3
    /\ resp.indexed = 2
    /\ resp.skipped = 1
    /\ Len(indexed_chunks) = 3
    /\ Cardinality(indexed_hashes) = 3
    /\ \E i \in 1..Len(indexed_chunks) :
           indexed_chunks[i].metadata.agent_id # req.agent_id

====
